---- MODULE Spec2Model ----
(***************************************************************************)
(* Model of cellx/tools/projection.py: the image normalizer                *)
(* (_load_and_normalize) and the montage builder (ManifoldProjection2D).   *)
(*                                                                         *)
(* Floating point values are modelled as integers in units of 1/FP.        *)
(* An image is a function from <<row, column, channel>> to a value.        *)
(***************************************************************************)
EXTENDS Integers, Sequences, FiniteSets, TLC

VARIABLES
    constructed,    \* "no" | "yes" | "ValueError": outcome of __init__
    ctor_images,    \* the `images` argument given to __init__
    ctor_preload,   \* the `preload_images` argument given to __init__
    _output_shape,  \* self._output_shape
    _images,        \* self._images
    _image_files,   \* self._image_files: [set, files]; the attribute exists iff set
    loaded,         \* the files _get_image was invoked on by the last operation
    args,           \* arguments of the last __call__
    result,         \* what the last __call__ did and left, see Failed and Project
    first,          \* history: arguments and result of the first __call__, see NoFirst
    image,          \* normalizer: [shape, px], the image after imread and resize
    normalized      \* normalizer: what _load_and_normalize computed, see Normalize

vars == <<constructed, ctor_images, ctor_preload, _output_shape, _images,
          _image_files, loaded, args, result, first, image, normalized>>

storeVars == <<constructed, ctor_images, ctor_preload, _output_shape, _images,
               _image_files>>
callVars == <<args, result>>
normVars == <<image, normalized>>

-----------------------------------------------------------------------------
(* Bounds of the model *)

MaxN == 2          \* most images in a store, most rows in a manifold
MaxCoord == 1      \* the first manifold coordinate ranges over 0..MaxCoord
MaxBins == 2       \* `bins` ranges over 1..MaxBins
MaxPixel == 2      \* raw pixel values of image files range over 0..MaxPixel
FP == 100          \* fixed point: a float v is the integer v * FP

Channels == 3      \* colour channels of a patch and of the canvas

None == [kind |-> "None", items |-> <<>>]
NaN == -999999

-----------------------------------------------------------------------------
(* Arithmetic helpers *)

Max2(a, b) == IF a >= b THEN a ELSE b
Min2(a, b) == IF a <= b THEN a ELSE b

RECURSIVE SumSeq(_)
SumSeq(s) == IF s = <<>> THEN 0 ELSE Head(s) + SumSeq(Tail(s))

\* largest k in lo..hi with k * k <= v  (lo * lo <= v is given)
RECURSIVE ISqrtIn(_, _, _)
ISqrtIn(v, lo, hi) ==
    IF lo >= hi THEN lo
    ELSE LET mid == (lo + hi + 1) \div 2
         IN IF mid * mid <= v THEN ISqrtIn(v, mid, hi) ELSE ISqrtIn(v, lo, mid - 1)

ISqrt(v) == ISqrtIn(v, 0, Min2(v, 46340))

Pixels(shape) == (0 .. shape[1] - 1) \X (0 .. shape[2] - 1)
Voxels(shape) == (0 .. shape[1] - 1) \X (0 .. shape[2] - 1) \X (0 .. Channels - 1)

-----------------------------------------------------------------------------
(* _load_and_normalize *)

\* np.clip; NaN compares false with everything and passes through
clip(v, lo, hi) == IF v = NaN THEN NaN
                   ELSE IF v < lo THEN lo ELSE IF v > hi THEN hi ELSE v

\* np.prod(output_shape)
n_pixels(shape) == shape[1] * shape[2]

\* the values of one channel, d = image[..., dim]
channel(img, shape, dim) == [p \in Pixels(shape) |-> img[<<p[1], p[2], dim>>]]

\* the values of d in row-major order, and their sums
chanSeq(d, shape) ==
    [i \in 1 .. n_pixels(shape) |-> d[<<(i - 1) \div shape[2], (i - 1) % shape[2]>>]]
chanSum(d, shape) == SumSeq(chanSeq(d, shape))
chanSumSq(d, shape) ==
    SumSeq([i \in 1 .. n_pixels(shape) |-> chanSeq(d, shape)[i] * chanSeq(d, shape)[i]])

\* n^2 * np.std(d)^2 for the n values of d (population variance, ddof = 0)
var_n2(d, shape) ==
    n_pixels(shape) * chanSumSq(d, shape) - chanSum(d, shape) * chanSum(d, shape)

\* a_std(d) = max(std(d), 1/sqrt(n_pixels)), given as (n_pixels * a_std(d))^2:
\* std^2 = var_n2 / n_pixels^2 and (1/sqrt(n_pixels))^2 = n_pixels / n_pixels^2.
a_std_nofloor(d, shape) == var_n2(d, shape)
a_std(d, shape) == Max2(var_n2(d, shape), n_pixels(shape))

\* x / sqrt(m2) in fixed point, truncated towards zero; 0/0 is NaN
divSqrt(x, m2) ==
    IF m2 = 0 THEN NaN
    ELSE LET q == ISqrt((FP * FP * x * x) \div m2)
         IN IF x < 0 THEN -q ELSE q

\* (d - mean(d)) / a_std(d) = (n * d - sum(d)) / sqrt((n * a_std(d))^2)
standardize(d, shape) ==
    LET s == chanSum(d, shape)
        m2 == a_std(d, shape)
    IN [p \in Pixels(shape) |-> divSqrt(n_pixels(shape) * d[p] - s, m2)]

\* nrm(d) = np.clip((d - mean(d)) / a_std(d), -4.0, 4.0)
nrm(d, shape) ==
    LET z == standardize(d, shape)
    IN [p \in Pixels(shape) |-> clip(z[p], -4 * FP, 4 * FP)]

\* image = np.clip(255.0 * ((image + 1.0) / 5.0), 0, 255)
rescale(v) == clip(IF v = NaN THEN NaN ELSE (255 * (v + FP)) \div 5, 0, 255 * FP)

\* `for dim in range(n_channels): image[..., dim] = nrm(image[..., dim])`
normalize_channels(img, shape) ==
    LET n_channels == Channels
        normed == [dim \in 0 .. n_channels - 1 |-> nrm(channel(img, shape, dim), shape)]
    IN [v \in Voxels(shape) |-> normed[v[3]][<<v[1], v[2]>>]]

\* the whole of _load_and_normalize, on the resized image
_load_and_normalize(img, shape) ==
    LET normed == normalize_channels(img, shape)
    IN [v \in Voxels(shape) |-> rescale(normed[v])]

-----------------------------------------------------------------------------
(* The inputs: image files, arrays of patches, manifolds *)

OutputShapes == {<<1, 2>>, <<2, 3>>, <<3, 2>>}

\* resize(imread(filename), output_shape, preserve_range=True): the decoded
\* image at the target shape.  a.png is a flat image, b.png a gradient.
resize_imread(file, shape) ==
    [v \in Voxels(shape) |->
        IF file = "a.png" THEN MaxPixel
        ELSE (v[1] + 2 * v[2] + v[3]) % (MaxPixel + 1)]

\* two patches a caller may hand over in an array: a flat colour and a gradient
ArrayPatch(k, shape) ==
    [v \in Voxels(shape) |->
        IF k = 0 THEN (40 + 60 * v[3]) * FP + (FP \div 2)
        ELSE ((200 + 10 * v[1] + 3 * v[2] + v[3]) % 256) * FP + (FP \div 4)]

\* an element of `images`: a str (a file name) or an array (a patch)
Str(file) == [t |-> "str", file |-> file, px |-> <<>>]
Arr(patch) == [t |-> "arr", file |-> "", px |-> patch]

SeqsUpTo(S, n) == UNION {[1 .. k -> S] : k \in 0 .. n}

\* the i-th file name and the i-th patch a caller hands over
FileAt(i) == IF i % 2 = 0 THEN "a.png" ELSE "b.png"
PatchAt(i, shape) == ArrayPatch(i % 2, shape)

\* What a caller may pass as `images`, for patches of the given shape: a list
\* of up to MaxN file names and arrays in any mix, or an array of up to MaxN
\* patches
ImagesArgs(shape) ==
    {[kind |-> "list",
      items |-> [i \in 1 .. k |-> IF i \in S THEN Str(FileAt(i))
                                   ELSE Arr(PatchAt(i, shape))]] :
        k \in 0 .. MaxN, S \in SUBSET (1 .. MaxN)}
    \cup {[kind |-> "ndarray", items |-> [i \in 1 .. k |-> Arr(PatchAt(i, shape))]] :
            k \in 0 .. MaxN}

\* a manifold: up to MaxN points of two coordinates
Points == (0 .. MaxCoord) \X (0 .. 1)
Manifolds == SeqsUpTo(Points, MaxN)
BinCounts == 1 .. MaxBins
Components == {<<0, 1>>, <<1, 0>>}

-----------------------------------------------------------------------------
(* ManifoldProjection2D.__init__ *)

\* all([isinstance(img, str) for img in images])
all_str(images) == \A i \in 1 .. Len(images.items) : images.items[i].t = "str"

\* self._get_image(file)
_get_image(file, shape) == _load_and_normalize(resize_imread(file, shape), shape)

\* [self._get_image(file) for file in tqdm(images)]
preloaded(images, shape) ==
    [kind |-> "list",
     items |-> [i \in 1 .. Len(images.items) |->
                    Arr(_get_image(images.items[i].file, shape))]]

__init__(images, output_shape, preload_images) ==
    /\ constructed = "no"
    /\ ctor_images' = images
    /\ ctor_preload' = preload_images
    /\ _output_shape' = output_shape
    /\ _image_files' = _image_files
    /\ IF all_str(images)
       THEN /\ constructed' = "yes"
            /\ IF preload_images
               THEN /\ _images' = preloaded(images, output_shape)
                    /\ loaded' = [i \in 1 .. Len(images.items) |-> images.items[i].file]
               ELSE /\ _images' = None
                    /\ loaded' = <<>>
       ELSE /\ loaded' = <<>>
            /\ IF images.kind # "ndarray"
               THEN /\ constructed' = "ValueError"
                    /\ _images' = None
               ELSE /\ constructed' = "yes"
                    /\ _images' = images
    /\ UNCHANGED <<callVars, first, normVars>>

-----------------------------------------------------------------------------
(* scipy.stats.binned_statistic_2d(x, y, [], bins, "count", expand_binnumbers) *)

RECURSIVE MinSeq(_)
MinSeq(s) == IF Len(s) = 1 THEN s[1] ELSE Min2(Head(s), MinSeq(Tail(s)))
RECURSIVE MaxSeq(_)
MaxSeq(s) == IF Len(s) = 1 THEN s[1] ELSE Max2(Head(s), MaxSeq(Tail(s)))

\* manifold[:, c]
column(manifold, c) == [i \in 1 .. Len(manifold) |-> manifold[i][c + 1]]

\* Edges and coordinates share the denominator EdgeDen, so that they compare
\* as integers: a coordinate v is the numerator v * EdgeDen(bins).
EdgeDen(bins) == 2 * bins

\* The B+1 edges np.linspace(smin, smax, B+1) of one axis; a range of zero
\* width (smin = smax) is widened to smin - 0.5 .. smax + 0.5.
bin_edges(xs, bins) ==
    LET smin == MinSeq(xs)
        smax == MaxSeq(xs)
        lo2 == IF smin = smax THEN 2 * smin - 1 ELSE 2 * smin
        hi2 == IF smin = smax THEN 2 * smax + 1 ELSE 2 * smax
    IN [k \in 1 .. bins + 1 |-> lo2 * bins + (k - 1) * (hi2 - lo2)]

\* np.digitize(v, edges): the i with edges[i-1] <= v < edges[i]
digitize(v, edges) == Cardinality({k \in 1 .. Len(edges) : edges[k] <= v})

\* The bin of each value; a value on the rightmost edge is shifted one bin to
\* the left, into the last bin.
bin_numbers_noshift(xs, edges, bins) ==
    [i \in 1 .. Len(xs) |-> digitize(xs[i] * EdgeDen(bins), edges)]
bin_numbers(xs, edges, bins) ==
    [i \in 1 .. Len(xs) |->
        LET v == xs[i] * EdgeDen(bins)
        IN IF v >= edges[Len(edges)] THEN digitize(v, edges) - 1
           ELSE digitize(v, edges)]

-----------------------------------------------------------------------------
(* ManifoldProjection2D.__call__: the lookup dictionary *)

\* grid = {}
StaleGrid == result.grid
FreshGrid == <<>>

HasKey(g, b) == \E k \in 1 .. Len(g) : g[k].b = b
KeyAt(g, b) == CHOOSE k \in 1 .. Len(g) : g[k].b = b

\* one turn of `for idx, b in enumerate(bxy)`; g is [err, d]: the exception
\* raised so far and the dictionary as a sequence of [b, imgs] in insertion
\* order
grid_step_first_only(g, idx, b) ==
    LET d1 == IF HasKey(g.d, b) THEN g.d ELSE Append(g.d, [b |-> b, imgs |-> <<>>])
        k == KeyAt(d1, b)
    IN IF d1[k].imgs = <<>>
       THEN [g EXCEPT !.d = [d1 EXCEPT ![k].imgs = Append(@, _images.items[idx].px)]]
       ELSE [g EXCEPT !.d = d1]
grid_step(g, idx, b) ==
    LET d1 == IF HasKey(g.d, b) THEN g.d ELSE Append(g.d, [b |-> b, imgs |-> <<>>])
        k == KeyAt(d1, b)
    IN IF g.err # "none" THEN g
       ELSE IF _images # None
       THEN [g EXCEPT !.d = [d1 EXCEPT ![k].imgs = Append(@, _images.items[idx].px)]]
       ELSE IF d1[k].imgs = <<>>
            THEN \* self._image_files does not exist
                 [err |-> "AttributeError", d |-> d1]
            ELSE [g EXCEPT !.d = d1]

RECURSIVE grid_loop(_, _, _)
grid_loop(g, idx, bxy) ==
    IF idx > Len(bxy) THEN g
    ELSE grid_loop(grid_step(g, idx, bxy[idx]), idx + 1, bxy)

-----------------------------------------------------------------------------
(* ManifoldProjection2D.__call__: the grid image *)

full_bins == <<_output_shape[1], _output_shape[2]>>
half_bins == <<_output_shape[1] \div 2, _output_shape[2] \div 2>>

\* the shape of imgrid = np.zeros(...)
imgrid_shape_tight(bins) == <<full_bins[1] * bins, full_bins[2] * bins>>
imgrid_shape(bins) ==
    <<(full_bins[1] + 1) * bins + half_bins[1],
      (full_bins[2] + 1) * bins + half_bins[2]>>

zeros(shape) == [shape |-> shape, px |-> [v \in Voxels(shape) |-> 0]]

\* blockx = slice(xx * full - half, (xx + 1) * full - half, 1), and blocky
block_overlapping(xx, axis) ==
    [start |-> xx * full_bins[axis] - half_bins[axis],
     stop |-> (xx + 1) * full_bins[axis]]
block(xx, axis) ==
    [start |-> xx * full_bins[axis] - half_bins[axis],
     stop |-> (xx + 1) * full_bins[axis] - half_bins[axis]]

\* slice.indices(size) for a step of 1: a negative bound counts from the end,
\* and both bounds are clamped to 0 .. size
slice_bound(v, size) == IF v < 0 THEN Max2(v + size, 0) ELSE Min2(v, size)
slice_indices(sl, size) ==
    [start |-> slice_bound(sl.start, size), stop |-> slice_bound(sl.stop, size)]
slice_len(sl, size) ==
    Max2(slice_indices(sl, size).stop - slice_indices(sl, size).start, 0)

\* np.mean(np.stack(images, axis=0), axis=0)
mean_stack(images) ==
    [v \in DOMAIN images[1] |->
        SumSeq([i \in 1 .. Len(images) |-> images[i][v]]) \div Len(images)]

\* the cast of a float in 0 .. 255 to the canvas' uint8
to_uint8(v) == v \div FP

\* whether a value of extent n can be assigned to a slice of extent m
broadcasts(n, m) == n = m \/ n = 1

\* imgrid[blockx, blocky, :] = im
assign_block(canvas, bx, by, im) ==
    LET rows == slice_indices(bx, canvas.shape[1])
        cols == slice_indices(by, canvas.shape[2])
    IN [canvas EXCEPT !.px =
          [v \in Voxels(canvas.shape) |->
             IF /\ rows.start <= v[1] /\ v[1] < rows.stop
                /\ cols.start <= v[2] /\ v[2] < cols.stop
             THEN to_uint8(im[<<IF full_bins[1] = 1 THEN 0 ELSE v[1] - rows.start,
                                IF full_bins[2] = 1 THEN 0 ELSE v[2] - cols.start,
                                v[3]>>])
             ELSE canvas.px[v]]]

\* `for xy, images in tqdm(grid.items())`; c is [err, canvas]
RECURSIVE build_loop(_, _, _)
build_loop(c, k, g) ==
    IF k > Len(g) \/ c.err # "none" THEN c
    ELSE LET bx == block(g[k].b[1], 1)
             by == block(g[k].b[2], 2)
         IN IF /\ broadcasts(full_bins[1], slice_len(bx, c.canvas.shape[1]))
               /\ broadcasts(full_bins[2], slice_len(by, c.canvas.shape[2]))
            THEN build_loop([c EXCEPT !.canvas =
                                assign_block(@, bx, by, mean_stack(g[k].imgs))],
                            k + 1, g)
            ELSE [c EXCEPT !.err = "ValueError"]

-----------------------------------------------------------------------------
(* ManifoldProjection2D.__call__ *)

NoCanvas == [shape |-> <<0, 0>>, px |-> <<>>]

\* The outcome of a call:
\*   called  whether __call__ was invoked at all
\*   raised  the exception it raised, "none" if it returned
\*   binned  whether it invoked binned_statistic_2d
\*   bn      per image <<bin_x, bin_y>>
\*   xe, ye  the bin edges (numerators over EdgeDen)
\*   grid    the lookup dictionary, in insertion order
\*   imgrid  the canvas
\*   extent  the extent (numerators over EdgeDen)
\* A call that raised leaves none of its locals behind.
Failed(error, didBin) ==
    [called |-> TRUE, raised |-> error, binned |-> didBin, bn |-> <<>>,
     xe |-> <<>>, ye |-> <<>>, grid |-> <<>>, imgrid |-> NoCanvas, extent |-> <<>>]

NotCalled == [Failed("none", FALSE) EXCEPT !.called = FALSE]

\* the body of __call__ after the assert of line 89
Project(manifold, bins, components) ==
    IF Len(manifold) = 0
    THEN \* binned_statistic_2d: the minimum of no values
         Failed("ValueError", TRUE)
    ELSE LET x == column(manifold, components[1])
             y == column(manifold, components[2])
             exs == bin_edges(x, bins)
             eys == bin_edges(y, bins)
             bnx == bin_numbers(x, exs, bins)
             bny == bin_numbers(y, eys, bins)
             bxy == [i \in 1 .. Len(manifold) |-> <<bnx[i], bny[i]>>]
             g == grid_loop([err |-> "none", d |-> FreshGrid], 1, bxy)
             c == build_loop([err |-> "none", canvas |-> zeros(imgrid_shape(bins))],
                             1, g.d)
         IN IF g.err # "none" THEN Failed(g.err, TRUE)
            ELSE IF c.err # "none" THEN Failed(c.err, TRUE)
            ELSE [called |-> TRUE, raised |-> "none", binned |-> TRUE, bn |-> bxy,
                  xe |-> exs, ye |-> eys, grid |-> g.d, imgrid |-> c.canvas,
                  extent |-> <<MinSeq(exs), MaxSeq(exs), MinSeq(eys), MaxSeq(eys)>>]

\* assert manifold.shape[0] == len(self._images)
Precondition(manifold) ==
    IF _images = None THEN "TypeError"          \* len(None)
    ELSE IF Len(manifold) # Len(_images.items) THEN "AssertionError"
    ELSE "none"

__call__(manifold, bins, components) ==
    /\ constructed = "yes"
    /\ args' = [manifold |-> manifold, bins |-> bins, components |-> components]
    /\ result' = IF Precondition(manifold) # "none"
                 THEN Failed(Precondition(manifold), FALSE)
                 ELSE Project(manifold, bins, components)
    /\ loaded' = <<>>
    /\ UNCHANGED <<storeVars, normVars>>

\* what the caller of the last __call__ received
Returned(r) == [raised |-> r.raised, imgrid |-> r.imgrid, extent |-> r.extent]

-----------------------------------------------------------------------------
(* The montage builder: a construction, then a call.  What a call returns  *)
(* does not depend on the calls before it; SpecRepeat below is the         *)
(* specification with any number of calls on one store.                    *)

NoArgs == [manifold |-> <<>>, bins |-> 0, components |-> <<0, 0>>]
\* history of the calls on the store: the arguments of the first call and what
\* it returned, and whether a later call repeated them after a different call
NoFirst == [set |-> FALSE, repeated |-> FALSE, args |-> NoArgs,
            returned |-> Returned(NotCalled)]
NoImage == [shape |-> <<0, 0>>, px |-> <<>>]

NoNormalized == [done |-> FALSE, divisor |-> <<>>, normed |-> <<>>, px |-> <<>>]

InitStore ==
    /\ constructed = "no"
    /\ ctor_images = [kind |-> "list", items |-> <<>>]
    /\ ctor_preload = FALSE
    /\ _output_shape = <<0, 0>>
    /\ _images = None
    /\ _image_files = [set |-> FALSE, files |-> <<>>]
    /\ loaded = <<>>
    /\ args = NoArgs
    /\ result = NotCalled
    /\ first = NoFirst

Init ==
    /\ InitStore
    /\ image = NoImage
    /\ normalized = NoNormalized

Construct ==
    \E shape \in OutputShapes, preload \in BOOLEAN :
        \E images \in ImagesArgs(shape) : __init__(images, shape, preload)

Call ==
    \E manifold \in Manifolds, bins \in BinCounts, components \in Components :
        /\ ~result.called
        /\ __call__(manifold, bins, components)
        /\ UNCHANGED first

Next == Construct \/ Call

Spec == Init /\ [][Next]_vars

-----------------------------------------------------------------------------
(* Repeated calls on one store *)

RepeatShape == <<3, 2>>
RepeatImages ==
    {[kind |-> "ndarray", items |-> [i \in 1 .. MaxN |-> Arr(PatchAt(i, RepeatShape))]],
     [kind |-> "list", items |-> [i \in 1 .. MaxN |-> Str(FileAt(i))]]}
\* manifolds of MaxN rows that alternate between two points
RepeatManifolds ==
    {[i \in 1 .. MaxN |-> IF i % 2 = 1 THEN p ELSE q] :
        p \in {<<0, 0>>, <<0, 1>>, <<1, 1>>}, q \in {<<0, 0>>, <<0, 1>>, <<1, 1>>}}

ConstructOnce ==
    \E images \in RepeatImages, preload \in BOOLEAN :
        __init__(images, RepeatShape, preload)

CallAgain ==
    \E manifold \in RepeatManifolds, bins \in BinCounts :
        /\ __call__(manifold, bins, <<0, 1>>)
        /\ first' = IF ~first.set
                    THEN [set |-> TRUE, repeated |-> FALSE, args |-> args',
                          returned |-> Returned(result')]
                    ELSE [first EXCEPT !.repeated =
                            @ \/ (args # first.args /\ args' = first.args)]

NextRepeat == ConstructOnce \/ CallAgain

SpecRepeat == Init /\ [][NextRepeat]_vars

-----------------------------------------------------------------------------
(* The normalizer alone *)

SmallShape == <<1, 2>>
LargeShape == <<3, 6>>

\* a background with one spot; the channels are the spot on the background,
\* the background alone (a channel of zero variance) and the inverse
Spot(bg, fg, at) ==
    [v \in Voxels(LargeShape) |->
        CASE v[3] = 0 -> IF <<v[1], v[2]>> = at THEN fg ELSE bg
          [] v[3] = 1 -> bg
          [] OTHER -> IF <<v[1], v[2]>> = at THEN bg ELSE fg]

\* every small image, and the spots on a large one
ResizedImages ==
    {[shape |-> SmallShape, px |-> f] : f \in [Voxels(SmallShape) -> 0 .. MaxPixel]}
    \cup {[shape |-> LargeShape, px |-> Spot(bg, fg, at)] :
            bg \in 0 .. MaxPixel, fg \in 0 .. MaxPixel, at \in Pixels(LargeShape)}

InitNorm ==
    /\ InitStore
    /\ image \in ResizedImages
    /\ normalized = NoNormalized

\* _load_and_normalize with its locals at return: the divisor of each channel
\* (as (n_pixels * a_std)^2), the image after the channel loop, the result
Normalize ==
    /\ ~normalized.done
    /\ normalized' =
          [done |-> TRUE,
           divisor |-> [dim \in 0 .. Channels - 1 |->
                           a_std(channel(image.px, image.shape, dim), image.shape)],
           normed |-> normalize_channels(image.px, image.shape),
           px |-> _load_and_normalize(image.px, image.shape)]
    /\ UNCHANGED <<storeVars, loaded, callVars, first, image>>

NextNorm == Normalize

SpecNorm == InitNorm /\ [][NextNorm]_vars

-----------------------------------------------------------------------------
(* Vocabulary of the properties *)

\* how the store was built
FromArray == constructed = "yes" /\ ctor_images.kind = "ndarray"
FromPaths == constructed = "yes" /\ ctor_images.kind = "list" /\ all_str(ctor_images)
Lazy == FromPaths /\ ~ctor_preload

\* the number of images the store was given
NumImages == Len(ctor_images.items)

\* the last call, its patch shape and bin count
Called == constructed = "yes" /\ result.called
Returns == Called /\ result.raised = "none"
h == _output_shape[1]
w == _output_shape[2]
B == args.bins

\* the bin pair of every row of the manifold of the last call
Assigned ==
    LET x == column(args.manifold, args.components[1])
        y == column(args.manifold, args.components[2])
    IN [i \in 1 .. Len(args.manifold) |->
           <<bin_numbers(x, bin_edges(x, B), B)[i], bin_numbers(y, bin_edges(y, B), B)[i]>>]

\* the images of a bin, and the sum of their values at one place
Members(bins_of, b) == {i \in 1 .. Len(bins_of) : bins_of[i] = b}
RECURSIVE SumOver(_, _)
SumOver(S, v) ==
    IF S = {} THEN 0
    ELSE LET i == CHOOSE i \in S : TRUE
         IN _images.items[i].px[v] + SumOver(S \ {i}, v)

\* the rows (axis 1) or columns (axis 2) the placement formula gives bin index k
Range(k, axis) ==
    LET full == _output_shape[axis]
    IN (k * full - full \div 2) .. ((k + 1) * full - full \div 2 - 1)

-----------------------------------------------------------------------------
(* C1: whenever the number of manifold rows differs from the number of     *)
(* images of the store, whichever way the store was built, the call fails  *)
(* with the precondition violation (the assertion) before binning runs and *)
(* returns neither a canvas nor an extent.                                 *)
C1_MismatchIsPreconditionViolation ==
    (Called /\ Len(args.manifold) # NumImages) =>
        /\ result.raised = "AssertionError"
        /\ ~result.binned
        /\ result.imgrid = NoCanvas
        /\ result.extent = <<>>

-----------------------------------------------------------------------------
(* C2: the canvas regions of two bins adjacent along an axis overlap by    *)
(* exactly half a patch: h \div 2 rows, w \div 2 columns.                  *)
C2_AdjacentOverlapHalf ==
    (Called /\ result.binned) =>
        \A k \in 1 .. B - 1 :
            /\ block(k, 1).stop - block(k + 1, 1).start = h \div 2
            /\ block(k, 2).stop - block(k + 1, 2).start = w \div 2

(* C2 amended: the regions of two adjacent bins share no row or column:    *)
(* the region of bin k+1 starts where the region of bin k stops, each is   *)
(* exactly one patch long, and the first one starts at h - h \div 2.       *)
C2_AdjacentAbut ==
    (Called /\ result.binned) =>
        \A axis \in {1, 2} :
            /\ block(1, axis).start = _output_shape[axis] - _output_shape[axis] \div 2
            /\ \A k \in 1 .. B :
                  /\ block(k, axis).stop - block(k, axis).start = _output_shape[axis]
                  /\ block(k, axis).stop = block(k + 1, axis).start

C2_Witness ==
    /\ Returns
    /\ h > 1 /\ w > 1
    /\ \E k \in 1 .. Len(result.grid), l \in 1 .. Len(result.grid) :
          /\ result.grid[l].b[1] = result.grid[k].b[1] + 1
          /\ result.grid[l].b[2] = result.grid[k].b[2]

-----------------------------------------------------------------------------
(* C3: a store built from file paths with preload_images = false retains   *)
(* the paths, and a call with a manifold of matching length completes,     *)
(* loading each image at most once.                                        *)
C3_LazyStoreProjects ==
    (Lazy /\ result.called /\ Len(args.manifold) = NumImages /\ NumImages > 0) =>
        /\ _image_files.set
        /\ _image_files.files = [i \in 1 .. NumImages |-> ctor_images.items[i].file]
        /\ result.raised = "none"
        /\ \A i \in 1 .. NumImages :
              Cardinality({k \in 1 .. Len(loaded) : loaded[k] = ctor_images.items[i].file})
                  <= Cardinality({j \in 1 .. NumImages :
                                    ctor_images.items[j].file = ctor_images.items[i].file})

-----------------------------------------------------------------------------
(* C4: constructing the store with an array, of any length and for either  *)
(* value of preload_images, stores that array itself as the patch          *)
(* collection; constructing it with a list that is not made up only of     *)
(* strings fails and produces no store.                                    *)
C4_ArrayStoredOrError ==
    /\ (constructed # "no" /\ ctor_images.kind = "ndarray") =>
          (constructed = "yes" /\ _images = ctor_images)
    /\ (constructed # "no" /\ ctor_images.kind = "list" /\ ~all_str(ctor_images)) =>
          constructed = "ValueError"

-----------------------------------------------------------------------------
(* C7: for each non-empty bin the patch written to the canvas is the       *)
(* per-pixel mean over the images assigned to the bin, each counted once   *)
(* and no other image included, whichever way the store was built: array,  *)
(* preloaded paths or paths that were not preloaded.                       *)
C7_BinMeanWritten ==
    (Called /\ Len(args.manifold) = NumImages /\ NumImages > 0) =>
        /\ result.raised = "none"
        /\ \A k \in 1 .. Len(result.grid) :
              LET members == Members(Assigned, result.grid[k].b)
              IN \A v \in Voxels(_output_shape) :
                    mean_stack(result.grid[k].imgs)[v]
                        = SumOver(members, v) \div Cardinality(members)
        /\ \A i \in 1 .. NumImages :
              \E k \in 1 .. Len(result.grid) : result.grid[k].b = Assigned[i]

-----------------------------------------------------------------------------
-----------------------------------------------------------------------------
(* C9: the canvas is large enough for every bin position: for every bin    *)
(* (bx, by) within 1..B the row and column ranges of the placement formula *)
(* start at 0 or later and stop within the canvas, so that no patch is     *)
(* clipped and no slice index wraps around.                                *)
C9_BlocksFitCanvas ==
    (Called /\ result.binned /\ NumImages > 0) =>
        /\ result.raised = "none"
        /\ result.imgrid.shape = <<(h + 1) * B + h \div 2, (w + 1) * B + w \div 2>>
        /\ \A k \in 1 .. B, axis \in {1, 2} :
              /\ block(k, axis).start >= 0
              /\ block(k, axis).stop <= result.imgrid.shape[axis]
              /\ slice_indices(block(k, axis), result.imgrid.shape[axis]) = block(k, axis)

C9_Witness ==
    /\ Returns
    /\ h % 2 = 1
    /\ B = 1
    /\ \E k \in 1 .. Len(result.grid) : result.grid[k].b = <<B, B>>

-----------------------------------------------------------------------------
(* C10: the returned canvas has shape ((h+1)*B + h\div 2, (w+1)*B +        *)
(* w\div 2, 3); the rows [bx*h - h\div 2, (bx+1)*h - h\div 2) and columns  *)
(* [by*w - w\div 2, (by+1)*w - w\div 2) of each non-empty bin hold the     *)
(* mean of the patches assigned to the bin, as the canvas' 8-bit unsigned  *)
(* integers keep it, and every other pixel is zero.                        *)
C10_CanvasContent ==
    Returns =>
        /\ result.imgrid.shape = <<(h + 1) * B + h \div 2, (w + 1) * B + w \div 2>>
        /\ DOMAIN result.imgrid.px = Voxels(result.imgrid.shape)
        /\ \A v \in Voxels(result.imgrid.shape) :
              LET owners == {b \in {result.bn[i] : i \in 1 .. Len(result.bn)} :
                                v[1] \in Range(b[1], 1) /\ v[2] \in Range(b[2], 2)}
              IN IF owners = {}
                 THEN result.imgrid.px[v] = 0
                 ELSE \A b \in owners :
                        LET members == Members(result.bn, b)
                            at == <<v[1] - (b[1] * h - h \div 2),
                                    v[2] - (b[2] * w - w \div 2), v[3]>>
                        IN result.imgrid.px[v]
                             = (SumOver(members, at) \div Cardinality(members)) \div FP

C10_Witness ==
    /\ Returns
    /\ \E k \in 1 .. Len(result.grid) :
          /\ Len(result.grid[k].imgs) > 1
          /\ result.grid[k].imgs[1] # result.grid[k].imgs[2]
    /\ \E v \in Voxels(result.imgrid.shape) : result.imgrid.px[v] # 0
    /\ \E v \in Voxels(result.imgrid.shape) : result.imgrid.px[v] = 0

-----------------------------------------------------------------------------
(* C5: for a fixed store, calls with identical arguments return an         *)
(* identical canvas and extent every time: a call leaves the stored patch  *)
(* collection and the output shape unchanged, and nothing of one call      *)
(* (bins, groups, canvas) is visible in the next.                          *)
C5_RepeatedCallsAgree ==
    /\ [](Called /\ first.set /\ args = first.args => Returned(result) = first.returned)
    /\ [][constructed = "yes" => UNCHANGED <<_images, _output_shape, _image_files>>]_vars

C5_Witness ==
    /\ Returns
    /\ first.repeated
    /\ first.args = args
    /\ Len(result.grid) > 1

-----------------------------------------------------------------------------
(* C6: every value the normalizer produces is a finite number in 0..255,   *)
(* also for a channel of zero variance: the divisor is at least            *)
(* 1/sqrt(n_pixels), the normalised value lies in -4..4 and the rescaled   *)
(* value 255*((v+1)/5) is clipped to 0..255.                               *)
C6_NormalizedInRange ==
    normalized.done =>
        /\ \A dim \in 0 .. Channels - 1 :
              normalized.divisor[dim] >= n_pixels(image.shape)
        /\ \A v \in Voxels(image.shape) :
              /\ normalized.normed[v] # NaN
              /\ normalized.normed[v] >= -4 * FP
              /\ normalized.normed[v] <= 4 * FP
              /\ normalized.px[v] # NaN
              /\ normalized.px[v] >= 0
              /\ normalized.px[v] <= 255 * FP

ZeroVariance(dim) ==
    \A p \in Pixels(image.shape), q \in Pixels(image.shape) :
        image.px[<<p[1], p[2], dim>>] = image.px[<<q[1], q[2], dim>>]

C6_Witness ==
    /\ normalized.done
    /\ \E dim \in 0 .. Channels - 1 : ZeroVariance(dim)
    /\ \E v \in Voxels(image.shape) : normalized.normed[v] = 4 * FP
    /\ \E v \in Voxels(image.shape) : normalized.px[v] = 255 * FP
    /\ \E v \in Voxels(image.shape) : normalized.px[v] = 0

====
